---- MODULE Spec2Model ----
(***************************************************************************)
(* Diagnosis-record lifecycle of the WheatWise API: the "diagnosis" table, *)
(* the request-path operations of app/services/diagnosis.py, the hourly    *)
(* batch sweep driven by app/utils/routine_diagnosis.py and the agreement  *)
(* report of app/services/analytics.py.                                    *)
(*                                                                         *)
(* store is the COMMITTED content of the table.  The sweep works on the    *)
(* objects of its own SQLAlchemy session (dirty) and reaches the table     *)
(* only at db.commit().  Request operations run in a session of their own  *)
(* (create_session) and are short, so each is one atomic step.  When the   *)
(* scheduler thread has ended (schedPc "dead" or "down") its locals show   *)
(* what it held at that moment, until the process is started again.        *)
(*                                                                         *)
(* users and password_reset_log are the tables of app/models/user.py, with *)
(* the account operations of app/services/user.py; UserSpec runs them.     *)
(***************************************************************************)
EXTENDS Integers, Sequences, FiniteSets, TLC

VARIABLES
    store,           \* committed rows of table "diagnosis"; row id = index
    schedPc,         \* position of the run_routine_diagnoses thread
    due,             \* the hourly job is due (datetime.now() >= next_run)
    uploaded_files,  \* sweep local: ids returned by the query, in order
    probs,           \* sweep local: probability vectors gathered so far
    i,               \* sweep local: index of the write loop
    dirty,           \* sweep session: uncommitted attribute writes, by row id
    loaded,          \* sweep session: manual_diagnosis of each row as loaded
    inflight,        \* number of sweeps started and not yet ended
    users,           \* committed rows of table "users"; row id = index
    password_reset_log,  \* committed rows of table "password_reset_log"
    now              \* datetime.now(), in hours

vars == <<store, schedPc, due, uploaded_files, probs, i, dirty, loaded,
          inflight, users, password_reset_log, now>>

userVars == <<users, password_reset_log, now>>

sweepVars == <<schedPc, due, uploaded_files, probs, i, dirty, loaded,
               inflight>>

----------------------------------------------------------------------------
(* Values *)

NULL == "NULL"          \* Python None / SQL NULL for enum and string columns
None == <<>>            \* None for list-valued columns; Some(v) is <<v>>
Some(v) == <<v>>

BROWN_RUST  == "Brown Rust"
YELLOW_RUST == "Yellow Rust"
SEPTORIA    == "Septoria"
HEALTHY     == "Healthy"
MILDEW      == "Mildew"
OTHER_TYPE  == "Other"     \* DiseaseTypeEnum.OTHER (OTHER is a TLA+ keyword)

DiseaseTypeEnum == <<BROWN_RUST, YELLOW_RUST, SEPTORIA, HEALTHY, MILDEW, OTHER_TYPE>>

\* The members of UserTypeEnum, a plain Enum: a member is a value of its
\* own and not the string it carries.
USER         == "UserTypeEnum.USER"
ADMIN        == "UserTypeEnum.ADMIN"
SYSTEM_ADMIN == "UserTypeEnum.SYSTEM_ADMIN"
UserTypeEnum == {USER, ADMIN, SYSTEM_ADMIN}

batch_size == 12

\* Bound of the model: rows the table may hold.
MaxRecords == 2

Users == {1, 2}

\* Mobile ids are opaque: new ones come into use in this order.
MobileIdSeq == <<"m1", "m2", "m3", "m4">>
MobileIds == {MobileIdSeq[k] : k \in 1..(MaxRecords + 1)}

\* The user a phone (a mobile id) belongs to: user 1 has two phones.
Owner(m) == IF m \in {"m1", "m2"} THEN 1 ELSE 2

\* Uploaded files.  The file name stands for its content; "corrupt.jpg" is a
\* file PIL cannot decode.
GoodImages == {"a.jpg", "b.jpg"}
AllImages == GoodImages \cup {"corrupt.jpg"}

\* The files the clients of the model upload.
Images == {"a.jpg", "corrupt.jpg"}

\* A probability is the fraction <<n, d>> in lowest terms.
RECURSIVE GCD(_, _)
GCD(a, b) == IF b = 0 THEN a ELSE GCD(b, a % b)
Frac(n, d) == <<n \div GCD(n, d), d \div GCD(n, d)>>
FracLess(p, q) == p[1] * q[2] < q[1] * p[2]

\* exp(logit) of the frozen model for each decodable image, per class index.
ExpLogits(img) ==
    IF img = "a.jpg" THEN <<1, 1, 1, 4, 1>> ELSE <<1, 4, 1, 1, 2>>

\* torch.nn.functional.softmax(output, dim=0) on a batch output of shape
\* [B, classes]: entry [b][c] is normalised over the BATCH axis, i.e. divided
\* by the sum of column c over the images of the batch.
RECURSIVE ColumnSum(_, _)
ColumnSum(batch, c) ==
    IF batch = <<>> THEN 0
    ELSE ExpLogits(Head(batch))[c] + ColumnSum(Tail(batch), c)

BatchSoftmax(batch) ==
    [b \in 1..Len(batch) |->
        [c \in 1..5 |-> Frac(ExpLogits(batch[b])[c], ColumnSum(batch, c))]]

\* ArgMax with a slip: of equal maximal entries the last one is taken.
ArgMax_Last(p) ==
    CHOOSE k \in 1..Len(p) :
        /\ \A j \in 1..Len(p) : ~FracLess(p[k], p[j])
        /\ \A j \in (k + 1)..Len(p) : FracLess(p[j], p[k])

\* np.argmax: index of the first maximal entry.
ArgMax(p) ==
    CHOOSE k \in 1..Len(p) :
        /\ \A j \in 1..Len(p) : ~FracLess(p[k], p[j])
        /\ \A j \in 1..(k - 1) : FracLess(p[j], p[k])

\* The five-entry table of _decode_prediction, by model output index.
disease_types == <<BROWN_RUST, YELLOW_RUST, SEPTORIA, HEALTHY, MILDEW>>

_decode_prediction(p) == disease_types[ArgMax(p)]

\* CustomDataset.__getitem__: opening an undecodable file raises.
Decodable(img) == img \in GoodImages

----------------------------------------------------------------------------
(* Table rows *)

\* NewRow with a slip: the image is classified while the request is served,
\* as diagnose_on_upload would do it.
NewRow_Classifies(user_idx, file, p, n) ==
    [ server_id               |-> n,
      mobile_id               |-> p.mobile_id,
      user_idx                |-> user_idx,
      server_diagnosis        |->
          IF Decodable(file)
          THEN _decode_prediction(BatchSoftmax(<<file>>)[1]) ELSE NULL,
      mobile_diagnosis        |-> p.mobile_diagnosis,
      manual_diagnosis        |-> NULL,
      remark                  |-> p.remark,
      mobile_image_path       |-> p.mobile_image_path,
      server_image_path       |-> file,
      image_name              |-> file,
      is_server_diagnosed     |-> Decodable(file),
      created_at              |-> n,
      server_confidence_score |->
          IF Decodable(file) THEN Some(BatchSoftmax(<<file>>)[1]) ELSE None,
      mobile_confidence_score |-> p.mobile_confidence_score ]

\* DiagnosisModel(...) as the mobile path builds it; column defaults fill
\* is_server_diagnosed and the absent columns.
NewRow(user_idx, file, p, n) ==
    [ server_id               |-> n,
      mobile_id               |-> p.mobile_id,
      user_idx                |-> user_idx,
      server_diagnosis        |-> NULL,
      mobile_diagnosis        |-> p.mobile_diagnosis,
      manual_diagnosis        |-> NULL,
      remark                  |-> p.remark,
      mobile_image_path       |-> p.mobile_image_path,
      server_image_path       |-> file,
      image_name              |-> file,
      is_server_diagnosed     |-> FALSE,
      created_at              |-> n,
      server_confidence_score |-> None,
      mobile_confidence_score |-> p.mobile_confidence_score ]

\* DiagnosisModel(...) as upload_image builds it: no mobile_id, no mobile
\* fields.
ServerRow(user_idx, file, n) ==
    [ server_id               |-> n,
      mobile_id               |-> NULL,
      user_idx                |-> user_idx,
      server_diagnosis        |-> NULL,
      mobile_diagnosis        |-> NULL,
      manual_diagnosis        |-> NULL,
      remark                  |-> NULL,
      mobile_image_path       |-> NULL,
      server_image_path       |-> file,
      image_name              |-> file,
      is_server_diagnosed     |-> FALSE,
      created_at              |-> n,
      server_confidence_score |-> None,
      mobile_confidence_score |-> None ]

Ids == DOMAIN store

\* InsertAccepted with a slip: mobile_id is not declared UNIQUE.
InsertAccepted_AnyMobileId(row) ==
    /\ row.mobile_id # NULL
    /\ \A k \in Ids : store[k].server_id # row.server_id

\* The constraints of the table that an INSERT must meet: mobile_id and
\* server_id are NOT NULL and UNIQUE (every constructor assigns server_id).
InsertAccepted(row) ==
    /\ row.mobile_id # NULL
    /\ \A k \in Ids : store[k].mobile_id # row.mobile_id
    /\ \A k \in Ids : store[k].server_id # row.server_id

\* uuid4().hex: a value no row holds yet.
FreshUuid == Len(store) + 1

\* query(...).filter(...).first(): the matching row of lowest id, or 0.
First(S) == IF S = {} THEN 0 ELSE CHOOSE k \in S : \A j \in S : k <= j

----------------------------------------------------------------------------
(* Request-path inputs *)

MobileScore == <<<<1, 1>>, <<0, 1>>, <<0, 1>>, <<0, 1>>, <<0, 1>>>>

\* A vector a faulty client sends: three entries for five classes.
ShortScore == <<<<1, 1>>, <<0, 1>>, <<0, 1>>>>

\* Bodies of MobileDiagnosisInputSchema a client may send for a mobile id.
MobileInputs ==
    { [ mobile_id               |-> m,
        mobile_diagnosis        |-> BROWN_RUST,
        manual_diagnosis        |-> NULL,
        mobile_image_path       |-> "p1",
        remark                  |-> NULL,
        mobile_confidence_score |-> Some(MobileScore) ] : m \in MobileIds }
    \cup
    { [ mobile_id               |-> m,
        mobile_diagnosis        |-> OTHER_TYPE,
        manual_diagnosis        |-> MILDEW,
        mobile_image_path       |-> "p2",
        remark                  |-> "note",
        mobile_confidence_score |-> None ] : m \in MobileIds }
    \cup
    { [ mobile_id               |-> m,
        mobile_diagnosis        |-> BROWN_RUST,
        manual_diagnosis        |-> NULL,
        mobile_image_path       |-> "p1",
        remark                  |-> NULL,
        mobile_confidence_score |-> Some(ShortScore) ] : m \in MobileIds }

ManualInputs == {HEALTHY}

----------------------------------------------------------------------------
(* Request-path operations *)

\* FileServices.upload_image: the row carries no mobile_id, so the INSERT is
\* judged by the table constraints; any exception becomes a 500.
upload_image(user_idx, file) ==
    LET row == ServerRow(user_idx, file, FreshUuid) IN
    /\ Len(store) < MaxRecords
    /\ IF InsertAccepted(row)
       THEN store' = Append(store, row)
       ELSE UNCHANGED store
    /\ UNCHANGED <<sweepVars, userVars>>

\* DiagnosisServices.upload_mobile_diagnosis
upload_mobile_diagnosis(user_idx, file, p) ==
    LET row == NewRow(user_idx, file, p, FreshUuid) IN
    /\ Len(store) < MaxRecords
    /\ IF InsertAccepted(row)
       THEN store' = Append(store, row)
       ELSE UNCHANGED store
    /\ UNCHANGED <<sweepVars, userVars>>

\* ManualUpdated with a slip: remark and mobile_diagnosis are cleared too.
ManualUpdated_Clobbers(row, manual_diagnosis) ==
    [row EXCEPT !.manual_diagnosis = manual_diagnosis,
                !.remark = NULL,
                !.mobile_diagnosis = NULL]

\* The assignment of update_manual_diagnosis to the row it found.
ManualUpdated(row, manual_diagnosis) ==
    [row EXCEPT !.manual_diagnosis = manual_diagnosis]

\* DiagnosisServices.update_manual_diagnosis: the 404 raised for a missing
\* row is caught by the handler's own except clause and leaves as a 500.
update_manual_diagnosis(server_id, user_idx, manual_diagnosis) ==
    LET k == First({j \in Ids : /\ store[j].user_idx = user_idx
                                /\ store[j].server_id = server_id}) IN
    /\ IF k = 0
       THEN UNCHANGED store
       ELSE store' = [store EXCEPT ![k] = ManualUpdated(@, manual_diagnosis)]
    /\ UNCHANGED <<sweepVars, userVars>>

\* MobileUpdated with a slip: the update clears what the server wrote.
MobileUpdated_ClearsServer(row, p) ==
    [row EXCEPT !.mobile_diagnosis = p.mobile_diagnosis,
                !.manual_diagnosis = p.manual_diagnosis,
                !.remark = p.remark,
                !.mobile_confidence_score = p.mobile_confidence_score,
                !.server_diagnosis = NULL,
                !.server_confidence_score = None]

\* MobileUpdated with a slip: the row is sent back to pending.
MobileUpdated_ResetsPending(row, p) ==
    [row EXCEPT !.mobile_diagnosis = p.mobile_diagnosis,
                !.manual_diagnosis = p.manual_diagnosis,
                !.remark = p.remark,
                !.mobile_confidence_score = p.mobile_confidence_score,
                !.is_server_diagnosed = FALSE]

\* The assignments of update_mobile_diagnosis to the row it found.
MobileUpdated(row, p) ==
    [row EXCEPT !.mobile_diagnosis = p.mobile_diagnosis,
                !.manual_diagnosis = p.manual_diagnosis,
                !.remark = p.remark,
                !.mobile_confidence_score = p.mobile_confidence_score]

\* DiagnosisServices.update_mobile_diagnosis: the row is looked up by
\* mobile_id alone; a missing row makes the first assignment raise.
update_mobile_diagnosis(p, user_idx) ==
    LET k == First({j \in Ids : store[j].mobile_id = p.mobile_id}) IN
    /\ IF k = 0
       THEN UNCHANGED store
       ELSE store' = [store EXCEPT ![k] = MobileUpdated(@, p)]
    /\ UNCHANGED <<sweepVars, userVars>>

----------------------------------------------------------------------------
(* The scheduler thread and the sweep *)

Running == schedPc \in {"query", "forward", "write", "commit"}

Range(f) == {f[k] : k \in DOMAIN f}

\* The hour of the job's next run passes.  A job that is running when it
\* passes is not started again: run_pending() is inside that job, and when
\* the job returns schedule sets next_run one hour after its end.
Tick ==
    /\ ~due
    /\ schedPc \notin {"dead", "down"}
    /\ due' = TRUE
    /\ UNCHANGED <<store, schedPc, uploaded_files, probs, i, dirty, loaded,
                   inflight, userVars>>

\* JobMayStart with a slip: due jobs are started whatever the thread does.
JobMayStart_Reentrant == due /\ schedPc \notin {"dead", "down"}

\* schedule.run_pending() is called from the one loop of
\* run_routine_diagnoses and runs a due job to its end before it returns.
JobMayStart == schedPc = "sleep" /\ due

run_pending ==
    /\ JobMayStart
    /\ schedPc' = "query"
    /\ due' = FALSE
    /\ inflight' = inflight + 1
    /\ UNCHANGED <<store, uploaded_files, probs, i, dirty, loaded, userVars>>

\* PendingFiles with a slip: the filter is missing.
PendingFiles_NoFilter(s) == DOMAIN s

\* query(DiagnosisModel).filter(is_server_diagnosed == False).all()
PendingFiles(s) == {k \in DOMAIN s : s[k].is_server_diagnosed = FALSE}

RECURSIVE SortedSeq(_)
SortedSeq(S) ==
    IF S = {} THEN <<>>
    ELSE LET m == CHOOSE k \in S : \A j \in S : k <= j
         IN <<m>> \o SortedSeq(S \ {m})

SweepQuery ==
    /\ schedPc = "query"
    /\ uploaded_files' = SortedSeq(PendingFiles(store))
    /\ probs' = <<>>
    /\ i' = 1
    /\ loaded' = [k \in PendingFiles(store) |-> store[k].manual_diagnosis]
    /\ schedPc' = IF PendingFiles(store) = {} THEN "write" ELSE "forward"
    /\ UNCHANGED <<store, due, dirty, inflight, userVars>>

\* The exception leaves batch_diagnose_uploaded_images as an HTTPException,
\* passes through schedule.run_pending() and ends the while loop.
SweepRaise ==
    /\ schedPc' = "dead"
    /\ inflight' = inflight - 1
    /\ loaded' = <<>>
    /\ UNCHANGED <<store, due, uploaded_files, probs, i, dirty, userVars>>

\* The rows of the next DataLoader batch.
NextBatch ==
    LET lo == Len(probs) + 1
        hi == IF Len(probs) + batch_size < Len(uploaded_files)
              THEN Len(probs) + batch_size ELSE Len(uploaded_files)
    IN [k \in 1..(hi - lo + 1) |-> uploaded_files[lo + k - 1]]

\* One iteration of "for batch_images in dataloader": the dataset opens
\* every image of the batch, then one forward pass and the softmax.
SweepForward ==
    /\ schedPc = "forward"
    /\ LET batch == [k \in DOMAIN NextBatch |->
                        store[NextBatch[k]].server_image_path] IN
       IF \E k \in DOMAIN batch : ~Decodable(batch[k])
       THEN SweepRaise
       ELSE /\ probs' = probs \o BatchSoftmax(batch)
            /\ schedPc' = IF Len(probs) + Len(batch) = Len(uploaded_files)
                          THEN "write" ELSE "forward"
            /\ UNCHANGED <<store, due, uploaded_files, i, dirty, loaded, inflight,
                           userVars>>

\* ServerWrite with a slip: the flag is not raised.
ServerWrite_NoFlag(p) ==
    [ server_diagnosis        |-> _decode_prediction(p),
      is_server_diagnosed     |-> FALSE,
      server_confidence_score |-> Some(p) ]

\* The three attribute assignments of the write loop for one row.
ServerWrite(p) ==
    [ server_diagnosis        |-> _decode_prediction(p),
      is_server_diagnosed     |-> TRUE,
      server_confidence_score |-> Some(p) ]

\* One iteration of "for i, uploaded_file in enumerate(uploaded_files)";
\* the writes stay in the session until db.commit().
SweepWrite ==
    /\ schedPc = "write"
    /\ IF i <= Len(uploaded_files)
       THEN /\ dirty' = [k \in DOMAIN dirty \cup {uploaded_files[i]} |->
                            IF k = uploaded_files[i]
                            THEN ServerWrite(probs[i]) ELSE dirty[k]]
            /\ i' = i + 1
            /\ UNCHANGED schedPc
       ELSE /\ schedPc' = "commit"
            /\ UNCHANGED <<dirty, i>>
    /\ UNCHANGED <<store, due, uploaded_files, probs, loaded, inflight,
                   userVars>>

\* Flushed with a slip: the UPDATE writes the row back whole, the columns
\* the sweep did not assign with the values it loaded.
Flushed_WholeRow(s, d) ==
    [k \in DOMAIN s |->
        IF k \in DOMAIN d
        THEN [s[k] EXCEPT
                !.server_diagnosis = d[k].server_diagnosis,
                !.is_server_diagnosed = d[k].is_server_diagnosed,
                !.server_confidence_score = d[k].server_confidence_score,
                !.manual_diagnosis = loaded[k]]
        ELSE s[k]]

\* What db.commit() makes of the table: the UPDATE of each dirty row sets
\* the changed columns only.
Flushed(s, d) ==
    [k \in DOMAIN s |->
        IF k \in DOMAIN d
        THEN [s[k] EXCEPT
                !.server_diagnosis = d[k].server_diagnosis,
                !.is_server_diagnosed = d[k].is_server_diagnosed,
                !.server_confidence_score = d[k].server_confidence_score]
        ELSE s[k]]

\* db.commit() after the write loop, the one commit of the sweep; the job
\* returns and schedule computes the next run.
SweepCommitOK ==
    /\ schedPc = "commit"
    /\ store' = Flushed(store, dirty)
    /\ schedPc' = "sleep"
    /\ due' = FALSE
    /\ inflight' = inflight - 1
    /\ uploaded_files' = <<>>
    /\ probs' = <<>>
    /\ i' = 1
    /\ dirty' = <<>>
    /\ loaded' = <<>>
    /\ UNCHANGED userVars

\* RolledBack with a slip: the session keeps its pending changes.
RolledBack_Kept(d) == d

\* What a failed db.commit() leaves in the session: the Session rolls the
\* transaction back and expires every object, so no pending change is left.
RolledBack(d) == <<>>

\* db.commit() refused by the database: the exception is raised.
SweepCommitFail ==
    /\ schedPc = "commit"
    /\ schedPc' = "dead"
    /\ inflight' = inflight - 1
    /\ dirty' = RolledBack(dirty)
    /\ loaded' = <<>>
    /\ UNCHANGED <<store, due, uploaded_files, probs, i, userVars>>

\* The process dies in the middle of a sweep; what was not committed is lost.
Crash ==
    /\ Running
    /\ schedPc' = "down"
    /\ inflight' = inflight - 1
    /\ loaded' = <<>>
    /\ UNCHANGED <<store, due, uploaded_files, probs, i, dirty, userVars>>

\* run_routine_diagnoses is started again.  After a crash that is a new
\* process with a new session; after an exception it may be the process
\* that is still alive, where the default argument db of
\* batch_diagnose_uploaded_images is the session of the sweeps before.
Restart ==
    /\ schedPc \in {"dead", "down"}
    /\ schedPc' = "sleep"
    /\ due' = FALSE
    /\ uploaded_files' = <<>>
    /\ probs' = <<>>
    /\ i' = 1
    /\ \E d \in (IF schedPc = "dead" THEN {dirty, <<>>} ELSE {<<>>}) :
          dirty' = d
    /\ loaded' = <<>>
    /\ UNCHANGED <<store, inflight, userVars>>

----------------------------------------------------------------------------
(* Accounts and password resets: app/services/user.py *)

MaxUsers == 2
MaxResets == 2
MaxNow == 2

\* int(os.getenv("OTP_EXPIRE_TIME")), in hours.
OTP_EXPIRE_TIME == 1

\* random.choices("0123456789", k=6) may draw any code, also one it drew
\* before.
OTPs == {"111111", "222222"}

Passwords == {"secret1", "secret2"}

\* pwd_context.hash and pwd_context.verify.
hash(password) == <<"bcrypt", password>>
verify(password, hashed) == hashed = hash(password)

\* The account create_default_user inserts into an empty table.
DefaultUser ==
    [ role                     |-> SYSTEM_ADMIN,
      password                 |-> hash("secret1"),
      password_reset_requested |-> FALSE,
      first_time_login         |-> FALSE ]

\* The rows of password_reset_log of one account.
ResetRows(user_idx) ==
    {k \in DOMAIN password_reset_log :
        password_reset_log[k].user_idx = user_idx}

\* The table without row k.
Deleted(log, k) ==
    [n \in 1..(Len(log) - 1) |-> IF n < k THEN log[n] ELSE log[n + 1]]

\* UserServices.create_user.  Both role tests compare the enum member
\* current_user.role with a string.  The account is committed, then
\* request_password_reset issues its first code, which becomes its password.
create_user(current_user, role, otp) ==
    /\ Len(users) < MaxUsers
    /\ Len(password_reset_log) < MaxResets
    /\ IF users[current_user].role = "User"
       THEN UNCHANGED userVars
       ELSE IF users[current_user].role = "Admin" /\ role # "User"
       THEN UNCHANGED userVars
       ELSE /\ users' = Append(users,
                   [ role                     |-> role,
                     password                 |-> hash(otp),
                     password_reset_requested |-> TRUE,
                     first_time_login         |-> TRUE ])
            /\ password_reset_log' = Append(password_reset_log,
                   [ user_idx   |-> Len(users) + 1,
                     secret_key |-> otp,
                     timestamp  |-> now ])
            /\ UNCHANGED now
    /\ UNCHANGED <<store, sweepVars>>

\* UserServices.update_profile on the caller's own account: the role of
\* the body is assigned with the other profile fields.
update_profile(current_user, role) ==
    /\ users' = [users EXCEPT ![current_user].role = role]
    /\ UNCHANGED <<store, sweepVars, password_reset_log, now>>

\* UserServices.request_password_reset: a new row for every request.
request_password_reset(user_idx, otp) ==
    /\ Len(password_reset_log) < MaxResets
    /\ password_reset_log' = Append(password_reset_log,
           [ user_idx   |-> user_idx,
             secret_key |-> otp,
             timestamp  |-> now ])
    /\ users' = [users EXCEPT ![user_idx].password_reset_requested = TRUE]
    /\ UNCHANGED <<store, sweepVars, now>>

\* The account after either branch of update_password has succeeded.
PasswordSet(user, new_password) ==
    [user EXCEPT !.password = hash(new_password),
                 !.password_reset_requested = FALSE,
                 !.first_time_login = FALSE]

\* UserServices.update_password.  With a reset requested the code is
\* compared with the row that query(PasswordReset)...first() returns, a
\* query without ORDER BY: any row of the account.  Every HTTPException
\* the body raises leaves the tables as they are.
update_password(user_idx, current_password, new_password, new_password2) ==
    /\ IF users[user_idx].password_reset_requested
       THEN IF ResetRows(user_idx) = {}
            THEN UNCHANGED <<users, password_reset_log>>
            ELSE \E k \in ResetRows(user_idx) :
                   IF current_password # password_reset_log[k].secret_key
                   THEN UNCHANGED <<users, password_reset_log>>
                   ELSE IF password_reset_log[k].timestamp + OTP_EXPIRE_TIME
                              < now
                   THEN UNCHANGED <<users, password_reset_log>>
                   ELSE /\ users' = [users EXCEPT ![user_idx] =
                                        PasswordSet(@, new_password)]
                        /\ password_reset_log' =
                               Deleted(password_reset_log, k)
       ELSE IF ~verify(current_password, users[user_idx].password)
            THEN UNCHANGED <<users, password_reset_log>>
            ELSE IF new_password # new_password2
            THEN UNCHANGED <<users, password_reset_log>>
            ELSE /\ users' = [users EXCEPT ![user_idx] =
                                 PasswordSet(@, new_password)]
                 /\ UNCHANGED password_reset_log
    /\ UNCHANGED <<store, sweepVars, now>>

\* An hour passes.
Hour ==
    /\ now < MaxNow
    /\ now' = now + 1
    /\ UNCHANGED <<store, sweepVars, users, password_reset_log>>

----------------------------------------------------------------------------
(* Specification *)

Init ==
    /\ store = <<>>
    /\ schedPc = "sleep"
    /\ due = FALSE
    /\ uploaded_files = <<>>
    /\ probs = <<>>
    /\ i = 1
    /\ dirty = <<>>
    /\ loaded = <<>>
    /\ inflight = 0
    /\ users = <<DefaultUser>>
    /\ password_reset_log = <<>>
    /\ now = 0

UploadImage == \E u \in Users, f \in Images : upload_image(u, f)

\* The mobile ids in use, and the first one not yet in use.
KnownMobileIds == {store[k].mobile_id : k \in Ids}
NewMobileId == MobileIdSeq[Cardinality(KnownMobileIds) + 1]

UploadMobileDiagnosis ==
    \E f \in Images, p \in MobileInputs :
        /\ p.mobile_id \in KnownMobileIds \cup {NewMobileId}
        /\ upload_mobile_diagnosis(Owner(p.mobile_id), f, p)

UpdateManualDiagnosis ==
    \E sid \in 1..MaxRecords, u \in Users, m \in ManualInputs :
        update_manual_diagnosis(sid, u, m)

UpdateMobileDiagnosis ==
    \E p \in MobileInputs, u \in Users : update_mobile_diagnosis(p, u)

Next ==
    \/ UploadImage
    \/ UploadMobileDiagnosis
    \/ UpdateManualDiagnosis
    \/ UpdateMobileDiagnosis
    \/ Tick
    \/ run_pending
    \/ SweepQuery
    \/ SweepForward
    \/ SweepWrite
    \/ SweepCommitOK
    \/ SweepCommitFail
    \/ Crash
    \/ Restart

Spec == Init /\ [][Next]_vars

CreateUser ==
    \E a \in DOMAIN users, role \in UserTypeEnum, otp \in OTPs :
        create_user(a, role, otp)

UpdateProfile ==
    \E a \in DOMAIN users, role \in UserTypeEnum : update_profile(a, role)

RequestPasswordReset ==
    \E u \in DOMAIN users, otp \in OTPs : request_password_reset(u, otp)

UpdatePassword ==
    \E u \in DOMAIN users, current_password \in OTPs \cup Passwords,
       new_password \in Passwords, new_password2 \in Passwords :
        update_password(u, current_password, new_password, new_password2)

UserNext ==
    \/ CreateUser
    \/ UpdateProfile
    \/ RequestPasswordReset
    \/ UpdatePassword
    \/ Hour

\* The accounts and the reset log on their own, with an empty diagnosis
\* table and an idle scheduler.
UserSpec == Init /\ [][UserNext]_vars

\* The scheduler keeps running: the loop takes its steps, a commit that is
\* tried again and again is accepted at last, and a stopped process is
\* started again.  Crashes and refused commits stop at some point, so that
\* a sweep which never finishes is the code's doing and not the
\* environment's.  Nothing is assumed of the clients.
FairSpec ==
    /\ Spec
    /\ WF_vars(Tick)
    /\ SF_vars(run_pending)
    /\ SF_vars(SweepQuery)
    /\ SF_vars(SweepForward)
    /\ SF_vars(SweepWrite)
    /\ SF_vars(SweepCommitOK)
    /\ WF_vars(Restart)
    /\ <>[][~Crash /\ ~SweepCommitFail]_vars

----------------------------------------------------------------------------
(* Properties *)

image(k) == store[k].server_image_path

\* The step ends a sweep otherwise than by the death of the process.
SweepEnds == Running /\ schedPc' \in {"sleep", "dead"}

\* C1: in every committed state of the table, a row has is_server_diagnosed
\* true exactly when both server_diagnosis and server_confidence_score are
\* set.
C1_FlagIffServerFields ==
    \A k \in Ids :
        store[k].is_server_diagnosed
            <=> (/\ store[k].server_diagnosis # NULL
                 /\ store[k].server_confidence_score # None)

\* A sweep has committed a row, and a later sweep died with another row
\* written in its session only.
C1_Witness ==
    /\ schedPc = "down"
    /\ \E k \in Ids : store[k].is_server_diagnosed
    /\ \E k \in DOMAIN dirty : ~store[k].is_server_diagnosed

\* C2: the commit of a sweep leaves server_diagnosis and
\* server_confidence_score of every row that already had a server_diagnosis
\* as they were.
C2_WriteOnce ==
    [][(schedPc = "commit" /\ schedPc' = "sleep") =>
        \A k \in Ids :
            store[k].server_diagnosis # NULL =>
                /\ store'[k].server_diagnosis = store[k].server_diagnosis
                /\ store'[k].server_confidence_score
                       = store[k].server_confidence_score]_vars

\* A later sweep is about to commit a row while another row holds the
\* result of an earlier sweep.
C2_Witness ==
    /\ schedPc = "commit"
    /\ dirty # <<>>
    /\ \E k \in Ids : store[k].server_diagnosis # NULL

\* Exactly one of the rows the sweep queried has an undecodable image.
OneUndecodable ==
    Cardinality({k \in Range(uploaded_files) : ~Decodable(image(k))}) = 1

\* C3: when a sweep with exactly one undecodable image among its rows ends,
\* every other row of the sweep is committed as server-diagnosed and the
\* undecodable one is still pending.
C3_SkipAndContinue ==
    [][(SweepEnds /\ OneUndecodable) =>
        \A k \in Range(uploaded_files) :
            store'[k].is_server_diagnosed <=> Decodable(image(k))]_vars

\* C4: after a crash in the middle of a sweep, every row the sweep had
\* already written is committed as server-diagnosed, and no row is committed
\* half-written.
C4_CrashKeepsWrittenRows ==
    schedPc = "down" =>
        /\ \A k \in DOMAIN dirty : store[k].is_server_diagnosed
        /\ \A k \in Ids :
              store[k].is_server_diagnosed
                  <=> store[k].server_diagnosis # NULL

\* C5: at most one sweep is in flight; while one is running, a job that
\* has become due again starts no second one.
C5_SingleFlight ==
    /\ inflight <= 1
    /\ Running <=> inflight = 1

\* The hour of the next run has passed while a sweep is writing.
C5_Witness ==
    /\ schedPc = "write"
    /\ due
    /\ dirty # <<>>

\* C6: whenever a sweep ends, whether it succeeded or failed, the scheduler
\* is back at its loop, from where the next due job is started.
C6_BackToIdle ==
    [][SweepEnds => schedPc' = "sleep"]_vars

\* C7: every pending row with a decodable image is server-diagnosed in the
\* end, whatever the other pending rows are.
C7_ForwardProgress ==
    \A k \in 1..MaxRecords :
        (k \in Ids /\ Decodable(image(k)) /\ ~store[k].is_server_diagnosed)
            ~> (k \in Ids /\ store[k].is_server_diagnosed)

\* The row update_manual_diagnosis finds for its arguments, or 0.
ManualTarget(server_id, user_idx) ==
    First({j \in Ids : /\ store[j].user_idx = user_idx
                        /\ store[j].server_id = server_id})

\* C8: update_manual_diagnosis on an existing row sets its manual_diagnosis
\* and leaves every other column of the row, and every other row, as it was.
C8_ManualUpdateFrame ==
    [][\A sid \in 1..MaxRecords, u \in Users, m \in ManualInputs :
        (update_manual_diagnosis(sid, u, m) /\ ManualTarget(sid, u) # 0) =>
            /\ DOMAIN store' = DOMAIN store
            /\ \A k \in Ids :
                  store'[k] =
                      IF k = ManualTarget(sid, u)
                      THEN [store[k] EXCEPT !.manual_diagnosis = m]
                      ELSE store[k]]_vars

\* A reviewer has labelled a server-diagnosed row whose mobile fields are
\* those of a mobile upload that carried no label.
C8_Witness ==
    \E k \in Ids :
        /\ store[k].manual_diagnosis = HEALTHY
        /\ store[k].mobile_diagnosis = BROWN_RUST
        /\ store[k].mobile_confidence_score # None
        /\ store[k].is_server_diagnosed

\* The row update_mobile_diagnosis finds for a body, or 0.
MobileTarget(p) == First({j \in Ids : store[j].mobile_id = p.mobile_id})

C10_MobileFullReplace ==
    [][\A p \in MobileInputs, u \in Users :
        (update_mobile_diagnosis(p, u) /\ MobileTarget(p) # 0) =>
            LET new == store'[MobileTarget(p)]
            IN /\ new.mobile_diagnosis = p.mobile_diagnosis
               /\ new.mobile_confidence_score = p.mobile_confidence_score
               /\ new.mobile_image_path = p.mobile_image_path]_vars

\* C11: a reviewer's update of manual_diagnosis and the sweep's write of the
\* same row never undo each other.  The update, made while the sweep holds
\* the row, leaves the sweep's pending writes as they are; the sweep's
\* commit puts its three server columns on the row and leaves the row with
\* the manual_diagnosis the table held just before.
C11_NoLostUpdate ==
    [][/\ \A sid \in 1..MaxRecords, u \in Users, m \in ManualInputs :
            (/\ ManualTarget(sid, u) \in Range(uploaded_files)
             /\ Running
             /\ update_manual_diagnosis(sid, u, m)) =>
                /\ dirty' = dirty
                /\ store'[ManualTarget(sid, u)].manual_diagnosis = m
       /\ (schedPc = "commit" /\ schedPc' = "sleep") =>
            \A k \in DOMAIN dirty :
                /\ store'[k].manual_diagnosis = store[k].manual_diagnosis
                /\ store'[k].is_server_diagnosed = TRUE
                /\ store'[k].server_diagnosis = dirty[k].server_diagnosis
                /\ store'[k].server_confidence_score =
                       dirty[k].server_confidence_score]_vars

\* The sweep is about to commit a row that a reviewer has labelled since the
\* sweep loaded it.
C11_Witness ==
    /\ schedPc = "commit"
    /\ \E k \in DOMAIN dirty :
          /\ loaded[k] = NULL
          /\ store[k].manual_diagnosis = HEALTHY


----------------------------------------------------------------------------
(* Responses *)

\* "try: ... except Exception as e: raise HTTPException(500)": whatever the
\* body raises, an HTTPException of its own included, leaves as a 500.
TryExcept(body) == IF body = "200" THEN "200" ELSE "500"

\* The status update_manual_diagnosis answers with: the body raises 404
\* for a row it does not find.
update_manual_diagnosis_status(server_id, user_idx) ==
    TryExcept(IF ManualTarget(server_id, user_idx) = 0 THEN "404" ELSE "200")

\* The status update_mobile_diagnosis answers with: .first() gives None for
\* a mobile id it does not find and the first assignment raises.
update_mobile_diagnosis_status(p) ==
    TryExcept(IF MobileTarget(p) = 0 THEN "AttributeError" ELSE "200")

\* C12: an update of a row that does not exist, by update_manual_diagnosis
\* or by update_mobile_diagnosis, is answered with 404 Not Found and leaves
\* the table as it was.
C12_UpdateMissingIsNotFound ==
    [][/\ \A sid \in 1..MaxRecords, u \in Users :
            ManualTarget(sid, u) = 0 =>
                update_manual_diagnosis_status(sid, u) = "404"
       /\ \A p \in MobileInputs :
            MobileTarget(p) = 0 => update_mobile_diagnosis_status(p) = "404"
       /\ \A sid \in 1..MaxRecords, u \in Users, m \in ManualInputs :
            (ManualTarget(sid, u) = 0 /\ update_manual_diagnosis(sid, u, m))
                => store' = store
       /\ \A p \in MobileInputs, u \in Users :
            (MobileTarget(p) = 0 /\ update_mobile_diagnosis(p, u))
                => store' = store]_vars

----------------------------------------------------------------------------
(* Agreement report *)

\* labels = [type.value for type in DiseaseTypeEnum]
labels == DiseaseTypeEnum

\* The rows the report query returns.
diagnoses ==
    {k \in Ids : /\ store[k].server_diagnosis # NULL
                 /\ store[k].manual_diagnosis # NULL}

\* sklearn confusion_matrix(manual_diagnoses, server_diagnoses, labels):
\* cell [a][b] counts the rows with true label a and predicted label b;
\* all zeros for empty input.
confusion_matrix ==
    [a \in DOMAIN labels |-> [b \in DOMAIN labels |->
        Cardinality({k \in diagnoses :
                        /\ store[k].manual_diagnosis = labels[a]
                        /\ store[k].server_diagnosis = labels[b]})]]

RECURSIVE Sum(_, _)
Sum(f, n) == IF n = 0 THEN 0 ELSE f[n] + Sum(f, n - 1)

correct_predictions ==
    Sum([a \in DOMAIN labels |-> confusion_matrix[a][a]], Len(labels))

total ==
    Sum([a \in DOMAIN labels |-> Sum(confusion_matrix[a], Len(labels))],
        Len(labels))

\* The dict the handler returns.
diagnosis_report ==
    [ correct_predictions   |-> correct_predictions,
      incorrect_predictions |-> total - correct_predictions,
      total                 |-> total,
      confusion_matrix      |-> confusion_matrix ]

\* AnalyticsServices.get_diagnosis_report with return_json=True.  The role
\* test compares the enum member with a string; the 403 it raises is
\* raised inside the try block.
get_diagnosis_report(role) ==
    IF role # "System Admin"
    THEN [ status |-> TryExcept("403"), body |-> None ]
    ELSE [ status |-> "200", body |-> Some(diagnosis_report) ]

\* C13: a caller whose role is not System Admin is answered with 403
\* Forbidden and gets no report.
C13_ReportForbidden ==
    \A role \in UserTypeEnum \ {SYSTEM_ADMIN} :
        /\ get_diagnosis_report(role).status = "403"
        /\ get_diagnosis_report(role).body = None

\* The rows with both a server and a manual diagnosis.
Qualifying ==
    {k \in Ids : /\ store[k].server_diagnosis # NULL
                 /\ store[k].manual_diagnosis # NULL}

\* The report the claims describe: cell [m][s] over the six labels, the
\* number of qualifying rows, and how many of them agree.
ClaimedReport ==
    [ correct_predictions   |->
          Cardinality({k \in Qualifying :
              store[k].manual_diagnosis = store[k].server_diagnosis}),
      incorrect_predictions |->
          Cardinality({k \in Qualifying :
              store[k].manual_diagnosis # store[k].server_diagnosis}),
      total                 |-> Cardinality(Qualifying),
      confusion_matrix      |->
          [m \in 1..6 |-> [s \in 1..6 |->
              Cardinality({k \in Qualifying :
                  /\ store[k].manual_diagnosis = DiseaseTypeEnum[m]
                  /\ store[k].server_diagnosis = DiseaseTypeEnum[s]})]] ]

\* C14: in every state of the table the report asked for by a System Admin
\* is returned and holds, for every pair of labels, the number of rows with
\* that manual and that server diagnosis, their total, the number on the
\* diagonal as correct and the rest as incorrect.
C14_ReportCounts ==
    /\ get_diagnosis_report(SYSTEM_ADMIN).status = "200"
    /\ get_diagnosis_report(SYSTEM_ADMIN).body = Some(ClaimedReport)

\* C15: when no row has both diagnoses, the report asked for by a System
\* Admin is returned with a matrix of zeros and total, correct and
\* incorrect all 0.
C15_EmptyReport ==
    Qualifying = {} =>
        /\ get_diagnosis_report(SYSTEM_ADMIN).status = "200"
        /\ get_diagnosis_report(SYSTEM_ADMIN).body =
               Some([ correct_predictions   |-> 0,
                      incorrect_predictions |-> 0,
                      total                 |-> 0,
                      confusion_matrix      |->
                          [m \in 1..6 |-> [s \in 1..6 |-> 0]] ])

----------------------------------------------------------------------------
(* Classification of one image *)

\* DiagnosisServices._diagnose_image: a batch of one, and the softmax of
\* output[0] over its classes.
_diagnose_image(image_path) ==
    [c \in 1..5 |-> Frac(ExpLogits(image_path)[c],
                         Sum(ExpLogits(image_path), 5))]

\* C16: when the sweep has classified its rows, it holds one probability
\* vector per row, in the order of the rows, and the i-th vector decodes to
\* the disease type that the image of the i-th row decodes to when it is
\* classified on its own.
C16_BatchingKeepsResult ==
    schedPc \in {"write", "commit"} =>
        /\ Len(probs) = Len(uploaded_files)
        /\ \A k \in 1..Len(uploaded_files) :
              _decode_prediction(probs[k]) =
                  _decode_prediction(_diagnose_image(image(uploaded_files[k])))

----------------------------------------------------------------------------
(* Decoding of arbitrary model outputs *)

\* Probabilities are taken in steps of 1/Levels.
Levels == 2

\* The vectors of five probabilities a model may put out for one image.
Vectors ==
    [1..5 -> {Frac(n, Levels) : n \in 0..Levels}]

\* The sweep has queried one pending row and holds the model's output for
\* it, whatever that output is; the write loop is about to start.
DecodeInit ==
    /\ store = <<NewRow(1, "a.jpg", CHOOSE p \in MobileInputs :
                          /\ p.mobile_id = "m1"
                          /\ p.mobile_diagnosis = BROWN_RUST, 1)>>
    /\ schedPc = "write"
    /\ due = FALSE
    /\ uploaded_files = <<1>>
    /\ probs \in {<<v>> : v \in Vectors}
    /\ i = 1
    /\ dirty = <<>>
    /\ loaded = [k \in {1} |-> NULL]
    /\ inflight = 1
    /\ users = <<DefaultUser>>
    /\ password_reset_log = <<>>
    /\ now = 0

DecodeNext == SweepWrite \/ SweepCommitOK

DecodeSpec == DecodeInit /\ [][DecodeNext]_vars

\* C17: the server diagnosis the sweep gives a row is the class, in the
\* order Brown Rust, Yellow Rust, Septoria, Healthy, Mildew, at the index
\* of the largest entry of the row's probability vector, and at the lowest
\* such index when several entries are equal and largest.
C17_DecodeLowestArgMax ==
    \A r \in Ids :
        store[r].is_server_diagnosed =>
            LET v == store[r].server_confidence_score[1]
                Less(a, b) == a[1] * b[2] < b[1] * a[2]
                classes == <<BROWN_RUST, YELLOW_RUST, SEPTORIA, HEALTHY,
                             MILDEW>>
            IN \E k \in 1..5 :
                  /\ store[r].server_diagnosis = classes[k]
                  /\ \A j \in 1..5 : ~Less(v[k], v[j])
                  /\ \A j \in 1..(k - 1) : Less(v[j], v[k])

\* A committed row whose vector has its largest value at the indices of
\* Yellow Rust and Healthy, and which is diagnosed Yellow Rust.
C17_Witness ==
    \E r \in Ids :
        /\ store[r].is_server_diagnosed
        /\ store[r].server_confidence_score[1] =
               <<Frac(0, 1), Frac(1, 2), Frac(0, 1), Frac(1, 2), Frac(0, 1)>>
        /\ store[r].server_diagnosis = YELLOW_RUST

\* C18: no row ever has Other as its server diagnosis or as its mobile
\* diagnosis; Other is found in manual_diagnosis only.
C18_OtherOnlyManual ==
    \A k \in Ids :
        /\ store[k].server_diagnosis # OTHER_TYPE
        /\ store[k].mobile_diagnosis # OTHER_TYPE

----------------------------------------------------------------------------
(* Server-side upload *)

\* The status FileServices.upload_image answers with for a file that passes
\* its two image tests: the INSERT of a row without mobile_id is refused by
\* the table and db.commit() raises.
upload_image_status(user_idx, file) ==
    TryExcept(IF InsertAccepted(ServerRow(user_idx, file, FreshUuid))
              THEN "200" ELSE "IntegrityError")

\* C19: the upload of a valid image through upload_image succeeds and adds
\* one row to the table, with a server_id no other row has, no mobile_id,
\* no diagnosis and no confidence vector of any kind, and
\* is_server_diagnosed false.
C19_ServerUploadCreatesStub ==
    \A u \in Users, f \in Images \cap GoodImages :
        LET row == ServerRow(u, f, FreshUuid) IN
        /\ upload_image_status(u, f) = "200"
        /\ InsertAccepted(row)
        /\ \A k \in Ids : store[k].server_id # row.server_id
        /\ row.mobile_id = NULL
        /\ row.server_diagnosis = NULL
        /\ row.mobile_diagnosis = NULL
        /\ row.manual_diagnosis = NULL
        /\ row.server_confidence_score = None
        /\ row.mobile_confidence_score = None
        /\ row.is_server_diagnosed = FALSE

----------------------------------------------------------------------------
(* Listing *)

\* All the orders in which the members of S can be put.
RECURSIVE Orders(_)
Orders(S) ==
    IF S = {} THEN {<<>>}
    ELSE UNION {{<<k>> \o t : t \in Orders(S \ {k})} : k \in S}

\* DiagnosisServices.get_diagnoses: the rows of the user, through a query
\* without ORDER BY, so in whatever order the database scans them.  The
\* value is the set of lists the call may return.
get_diagnoses(user_idx) ==
    {[n \in DOMAIN o |-> store[o[n]]] :
        o \in Orders({k \in Ids : store[k].user_idx = user_idx})}

\* C20: the list returned for a user holds every row of that user once and
\* no row of another user, in ascending order of creation time.
C20_ListOwnInCreationOrder ==
    \A u \in Users : \A r \in get_diagnoses(u) :
        /\ \A n \in DOMAIN r : r[n].user_idx = u
        /\ \A k \in Ids : store[k].user_idx = u =>
              Cardinality({n \in DOMAIN r : r[n] = store[k]}) = 1
        /\ \A n \in DOMAIN r, m \in DOMAIN r :
              n < m => r[n].created_at < r[m].created_at

----------------------------------------------------------------------------
(* Mobile payload validation *)

\* The body carries a confidence vector that does not have one entry per
\* class of the model.
Malformed(p) ==
    /\ p.mobile_confidence_score # None
    /\ Len(p.mobile_confidence_score[1]) # Len(disease_types)

\* C21: a mobile create or update whose confidence vector is not of the
\* length of the class list changes no row, and so every
\* mobile_confidence_score in the table that is not null has that length.
C21_MobileVectorLength ==
    [][/\ \A u \in Users, f \in Images, p \in MobileInputs :
            (Malformed(p) /\ upload_mobile_diagnosis(u, f, p))
                => store' = store
       /\ \A p \in MobileInputs, u \in Users :
            (Malformed(p) /\ update_mobile_diagnosis(p, u))
                => store' = store
       /\ \A k \in DOMAIN store' :
            store'[k].mobile_confidence_score # None =>
                Len(store'[k].mobile_confidence_score[1]) = 5]_vars

----------------------------------------------------------------------------
(* Commit failures *)

\* C22: when the commit of one record fails in a sweep, that record alone
\* stays undiagnosed: the other records of the sweep are committed and the
\* sweep is not ended by the failure.
C22_CommitFailureIsPerRecord ==
    [][(SweepCommitFail /\ Len(uploaded_files) > 1) =>
          /\ schedPc' \in {"write", "commit", "sleep"}
          /\ Cardinality({k \in Range(uploaded_files) :
                             ~store'[k].is_server_diagnosed}) <= 1]_vars

----------------------------------------------------------------------------
(* What a completed sweep has written *)

\* C23: a sweep that ends without a failure leaves every row that was
\* pending at its query diagnosed, with the probability vector of the row's
\* own image, and leaves the server fields of every other row, diagnosed
\* before or created after the query, as they were.
C23_SweepWritesQueriedRows ==
    [][SweepCommitOK =>
          \A k \in DOMAIN store :
              IF k \in Range(uploaded_files)
              THEN /\ store'[k].is_server_diagnosed
                   /\ store'[k].server_confidence_score =
                          Some(_diagnose_image(image(k)))
              ELSE /\ store'[k].is_server_diagnosed =
                          store[k].is_server_diagnosed
                   /\ store'[k].server_diagnosis = store[k].server_diagnosis
                   /\ store'[k].server_confidence_score =
                          store[k].server_confidence_score]_vars

\* The part of C23 that speaks of which rows are written.
C23_RowsOnly ==
    [][SweepCommitOK =>
          \A k \in DOMAIN store :
              IF k \in Range(uploaded_files)
              THEN store'[k].is_server_diagnosed
              ELSE /\ store'[k].is_server_diagnosed =
                          store[k].is_server_diagnosed
                   /\ store'[k].server_diagnosis = store[k].server_diagnosis
                   /\ store'[k].server_confidence_score =
                          store[k].server_confidence_score]_vars

----------------------------------------------------------------------------
(* Forward passes *)

----------------------------------------------------------------------------
(* The diagnosed state of a row *)

\* C25: a row that is server-diagnosed in the table stays so in every later
\* state, and no operation sets a server_diagnosis or a
\* server_confidence_score that is not null back to null.
C25_DiagnosedIsAbsorbing ==
    [][\A k \in DOMAIN store :
          /\ k \in DOMAIN store'
          /\ store[k].is_server_diagnosed => store'[k].is_server_diagnosed
          /\ store[k].server_diagnosis # NULL =>
                store'[k].server_diagnosis # NULL
          /\ store[k].server_confidence_score # None =>
                store'[k].server_confidence_score # None]_vars

\* A diagnosed row carries the manual diagnosis that only a mobile update
\* sets, and another sweep is at its commit.
C25_Witness ==
    /\ schedPc = "commit"
    /\ \E k \in DOMAIN store :
          /\ store[k].is_server_diagnosed
          /\ store[k].server_diagnosis # NULL
          /\ store[k].server_confidence_score # None
          /\ store[k].manual_diagnosis = MILDEW

----------------------------------------------------------------------------
(* Owner isolation *)

\* C26: an update a user invokes, update_manual_diagnosis or
\* update_mobile_diagnosis, changes no field of a row that belongs to
\* another user.
C26_OwnerIsolation ==
    [][/\ \A sid \in 1..MaxRecords, u \in Users, m \in ManualInputs :
            update_manual_diagnosis(sid, u, m) =>
                \A k \in DOMAIN store :
                    store[k].user_idx # u => store'[k] = store[k]
       /\ \A p \in MobileInputs, u \in Users :
            update_mobile_diagnosis(p, u) =>
                \A k \in DOMAIN store :
                    store[k].user_idx # u => store'[k] = store[k]]_vars

----------------------------------------------------------------------------
(* Aborted sweeps and the shared session *)

\* C27: a sweep that ends with an exception changes no row of the table
\* and leaves no pending change in the session, and the commit of a later
\* sweep on the same session persists the writes of that sweep only.
C27_AbortIsAllOrNothing ==
    [][/\ (Running /\ schedPc' = "dead") =>
            (store' = store /\ dirty' = <<>>)
       /\ SweepCommitOK =>
            /\ DOMAIN dirty \subseteq Range(uploaded_files)
            /\ \A k \in DOMAIN store :
                  k \notin Range(uploaded_files) => store'[k] = store[k]]_vars

\* A sweep has assigned all its rows and its commit has failed: the rows
\* are still pending in the table and the session holds nothing.
C27_Witness ==
    /\ schedPc = "dead"
    /\ Len(uploaded_files) > 1
    /\ i > Len(uploaded_files)
    /\ dirty = <<>>
    /\ \A k \in Range(uploaded_files) : ~store[k].is_server_diagnosed

----------------------------------------------------------------------------
(* Uniqueness of mobile ids *)

\* C28: no two rows of the table have the same mobile_id.  A mobile create
\* with a mobile_id that a row already has adds no row and changes none,
\* and so an update by mobile_id finds at most one row.
C28_UniqueMobileId ==
    [][/\ \A j, k \in DOMAIN store' :
            j # k => store'[j].mobile_id # store'[k].mobile_id
       /\ \A u \in Users, f \in Images, p \in MobileInputs :
            (p.mobile_id \in KnownMobileIds
                /\ upload_mobile_diagnosis(u, f, p)) => store' = store
       /\ \A p \in MobileInputs :
            Cardinality({j \in DOMAIN store' :
                            store'[j].mobile_id = p.mobile_id}) <= 1]_vars

\* The table holds a row, and a create with the mobile_id of that row is
\* refused by the table: the state after the failed create.
C28_Witness ==
    /\ Len(store) >= 1
    /\ Len(store) < MaxRecords
    /\ \E f \in Images, p \in MobileInputs :
          /\ p.mobile_id \in KnownMobileIds
          /\ ~InsertAccepted(NewRow(Owner(p.mobile_id), f, p, FreshUuid))

----------------------------------------------------------------------------
(* Roles *)

\* C29: whatever an account with role User does, its role stays User, the
\* accounts it creates have role User, and it is not answered with the
\* agreement report.
C29_NoRoleEscalation ==
    [][\A a \in DOMAIN users :
          users[a].role = USER =>
              /\ \A role \in UserTypeEnum :
                    update_profile(a, role) => users'[a].role = USER
              /\ \A role \in UserTypeEnum, otp \in OTPs :
                    create_user(a, role, otp) =>
                        \A k \in DOMAIN users' \ DOMAIN users :
                            users'[k].role = USER
              /\ get_diagnosis_report(users[a].role).status # "200"]_vars

----------------------------------------------------------------------------
(* Password resets *)

\* The code of the most recent reset request of an account.
MostRecentOtp(user_idx) ==
    LET k == CHOOSE n \in ResetRows(user_idx) :
                 \A m \in ResetRows(user_idx) : m <= n
    IN password_reset_log[k].secret_key

\* C30: with a reset requested, update_password succeeds only with the code
\* of the most recent request, and after it has succeeded no reset is
\* requested and no row of the reset log is left for the account, so that
\* no code issued before is accepted later.
C30_ResetProtocol ==
    [][\A u \in DOMAIN users, current_password \in OTPs \cup Passwords,
          new_password \in Passwords :
          (/\ users[u].password_reset_requested
           /\ update_password(u, current_password, new_password, new_password)
           /\ password_reset_log' # password_reset_log)
              => /\ current_password = MostRecentOtp(u)
                 /\ ~users'[u].password_reset_requested
                 /\ \A k \in DOMAIN password_reset_log' :
                       password_reset_log'[k].user_idx # u]_vars

====
